---- MODULE Spec2Model ----
(***************************************************************************)
(* A model of the v2dash analytics backend: the EventRepository retry      *)
(* wrapper and its query operations (backend/repositories/                 *)
(* event_repository.py), the dashboard gauges (backend/Gauges/*.py), the   *)
(* search-after pagination of get_user_events and the aggregation query    *)
(* of get_event_counts (backend/utils/query_builder.py).                   *)
(*                                                                         *)
(* Four groups of variables, one per component; each specification runs    *)
(* one component and leaves the others at their initial values:            *)
(*   Spec        concurrent requests to EventRepository, free environment  *)
(*   SpecForced  one request whose operation fails on its first N calls    *)
(*   SpecGauges  concurrent get_gauge_data calls of the four gauges        *)
(*   SpecClassify  the active/medium gauges over every per-user count      *)
(*   SpecDescope  the Descope gauge over user lists and kinds of dates     *)
(*   SpecPaging  get_user_events with its page token                       *)
(*   SpecPagingFair  the same, the client going on to the last page        *)
(*   SpecPageSize  the same, for every page size                           *)
(*   SpecCounts  get_event_counts with every interval                      *)
(***************************************************************************)
EXTENDS Integers, Sequences, FiniteSets, TLC

(***************************************************************************)
(* Bounds of the model.                                                    *)
(***************************************************************************)
\* concurrent logical requests to one EventRepository
NumRequests == 2
\* largest number N of forced transient failures of an operation
MaxFailures == 4
\* largest payload a well-formed search response carries
MaxValue == 1
\* concurrent get_gauge_data calls
NumCalls == 2
\* users of the index and of the identity provider
NumUsers == 2
\* latest start_date (in seconds); end dates are one later
MaxDate == 1
\* largest number of message events of one user
MaxCount == 22
\* longest document _id, in characters
MaxIdLen == 1
\* latest document timestamp, in seconds
MaxTs == 2
\* most documents of the user in the index
MaxDocs == 2
\* largest page_size of a client that pages through a store
MaxPage == 2
\* largest page_size asked for
MaxPageSize == 1001
\* most time slots the events of a get_event_counts query fall in
MaxSlots == 2

(***************************************************************************)
(* Program constants.                                                      *)
(***************************************************************************)
\* self.max_retries = 3
max_retries == 3
\* self.base_delay = 1
base_delay == 1

None == "None"

(***************************************************************************)
(* State                                                                   *)
(***************************************************************************)
\* EventRepository requests
VARIABLES
    pc,        \* per request: where its coroutine stands
    method,    \* per request: the query operation called
    attempt,   \* per request: the loop variable of _execute_with_retry
    calls,     \* per request: invocations of operation() so far
    inflight,  \* per request: search calls the client has not answered yet
    sleeps,    \* per request: the asyncio.sleep delays performed, in order
    outcome,   \* per request: what the caller of the query operation got
    last,      \* per request: what the client did to the latest search call
    nfail      \* per request: forced transient failures, or Free

rvars == <<pc, method, attempt, calls, inflight, sleeps, outcome, last, nfail>>

\* get_gauge_data calls
VARIABLES
    svcMode,    \* how the external services behave in this run
    index,      \* the search index: per user, the events it holds
    directory,  \* the identity provider: per user, createdTime in ms
    gpc,        \* per call: where get_gauge_data stands
    ggauge,     \* per call: the gauge called
    gargs,      \* per call: start_date and end_date
    gquery,     \* per call: the local `query` of the call
    gresponse,  \* per call: the response it got
    gresult     \* per call: what get_gauge_data gave its caller

gvars == <<svcMode, index, directory, gpc, ggauge, gargs, gquery, gresponse,
           gresult>>

\* get_user_events paging
VARIABLES
    store,      \* the documents of the user in the index
    page_size,  \* the page_size the client asks for
    ppc,        \* where the client's paging stands
    ptoken,     \* the page_token of the current (or next) call
    pquery,     \* the pagination part of the query of the current call
    plast,      \* the sort values of the last hit of the latest response
    presult,    \* the latest result of get_user_events
    pseen       \* the events of all the results the client got, in order

pvars == <<store, page_size, ppc, ptoken, pquery, plast, presult, pseen>>

\* get_event_counts calls
VARIABLES
    apc,        \* where the call stands
    aargs,      \* its arguments
    aquery,     \* the query it built
    aresponse,  \* the response of the search
    aresult     \* the list it returned

avars == <<apc, aargs, aquery, aresponse, aresult>>

vars == <<rvars, gvars, pvars, avars>>

\* What each component leaves alone.
NotRepository == <<gvars, pvars, avars>>
NotGauges == <<rvars, pvars, avars>>
NotPaging == <<rvars, gvars, avars>>
NotCounts == <<rvars, gvars, pvars>>

(***************************************************************************)
(* EventRepository                                                         *)
(***************************************************************************)
Requests == 1..NumRequests

Methods == {"get_producers_count", "get_event_counts", "get_user_events",
            "get_error_summary", "get_path_analytics"}

\* except (ConnectionError, TransportError)
TransientErrors == {"ConnectionError", "TransportError"}
\* failures the except clause of the wrapper does not name
OtherErrors == {"KeyError", "ValueError"}
Errors == TransientErrors \cup OtherErrors

\* the environment is not scripted
Free == 0 - 1

\* A search response: a body without the expected keys, or a well-formed
\* body carrying a payload (a count, a number of buckets or of hits).
EmptyBody == [wellformed |-> FALSE, n |-> 0]
Body(k) == [wellformed |-> TRUE, n |-> k]
Responses == {EmptyBody} \cup {Body(k) : k \in 1..MaxValue}

\* Python values the operations return: an int, a list of n records, a
\* dict holding n records.
PyInt(k) == [type |-> "int", n |-> k]
PyList(k) == [type |-> "list", n |-> k]
PyDict(k) == [type |-> "dict", n |-> k]
NoValue == [type |-> "none", n |-> 0]

Value(v) == [kind |-> "value", val |-> v, err |-> None]
Raise(e) == [kind |-> "raise", val |-> NoValue, err |-> e]
Pending == [kind |-> "pending", val |-> NoValue, err |-> None]

\* What the client did to a search call: nothing yet, a response, a raise.
Unanswered == [kind |-> "unanswered", resp |-> EmptyBody, err |-> None]
Answered(resp) == [kind |-> "response", resp |-> resp, err |-> None]
Failed(e) == [kind |-> "raise", resp |-> EmptyBody, err |-> e]

\* The response-shaping step of each operation's execute(): the lookups
\* with defaults return a default on a body without the keys, the
\* subscript lookups raise KeyError.
ProcessResponse(m, resp) ==
    CASE m = "get_producers_count" ->
           Value(PyInt(IF resp.wellformed THEN resp.n ELSE 0))
      [] m = "get_event_counts" ->
           Value(PyList(IF resp.wellformed THEN resp.n ELSE 0))
      [] OTHER ->
           IF resp.wellformed THEN Value(PyDict(resp.n)) ELSE Raise("KeyError")

\* get_producers_count wraps the search in try/except Exception: log, raise.
\* The others have no handler. Either way the failure leaves execute().
ExecuteRaises(m, e) == Raise(e)

\* A query operation that caught what the wrapper raises and gave a
\* defaulted result instead.
MethodSwallows(m, out) ==
    IF out.kind = "raise"
    THEN Value(IF m = "get_producers_count" THEN PyInt(0)
               ELSE IF m = "get_event_counts" THEN PyList(0) ELSE PyDict(0))
    ELSE out

\* A query operation ends with `return await self._execute_with_retry(...)`
\* and has no handler around it: what the wrapper returns or raises is what
\* the caller gets.
MethodOutcome(m, out) == out

\* An except clause that named Exception.
RetriesEverything(e) == TRUE

\* except (ConnectionError, TransportError)
IsTransient(e) == e \in TransientErrors

\* A last-attempt test off by one.
LastAttemptOffByOne(a) == a = max_retries

\* if attempt == self.max_retries - 1: raise e
IsLastAttempt(a) == a = max_retries - 1

\* A backoff that starts at twice the base delay.
DelayOffByOne(a) == base_delay * (2 ^ (a + 1))

\* delay = self.base_delay * (2**attempt)
Delay(a) == base_delay * (2 ^ a)

\* An attempt counter kept on the repository, shared by its requests.
SharedAttempt(att, r) == [q \in Requests |-> att[r] + 1]

\* for attempt in range(self.max_retries): `attempt` is a local of the
\* coroutine, one per request.
NextAttempt(att, r) == [att EXCEPT ![r] = @ + 1]

\* What the scripted environment lets invocation number i of r do:
\* a transient failure while i <= nfail[r], a well-formed answer after.
Scripted(r) == nfail[r] # Free
MustFail(r) == Scripted(r) /\ calls[r] <= nfail[r]
MustSucceed(r) == Scripted(r) /\ calls[r] > nfail[r]

\* `script`: what request 1's operation may be scripted to do (the others
\* are never scripted).
InitRepository(script) ==
    /\ pc = [r \in Requests |-> "idle"]
    /\ method = [r \in Requests |-> None]
    /\ attempt = [r \in Requests |-> 0]
    /\ calls = [r \in Requests |-> 0]
    /\ inflight = [r \in Requests |-> 0]
    /\ sleeps = [r \in Requests |-> <<>>]
    /\ outcome = [r \in Requests |-> Pending]
    /\ last = [r \in Requests |-> Unanswered]
    /\ nfail \in {f \in [Requests -> script \cup {Free}] :
                    /\ f[1] \in script
                    /\ \A r \in Requests \ {1} : f[r] = Free}

\* The wrapper leaves the loop: the request is over, with a value returned
\* to or an exception raised in the caller of the query operation.
Finish(r, out) ==
    /\ pc' = [pc EXCEPT ![r] = IF MethodOutcome(method[r], out).kind = "value"
                               THEN "returned" ELSE "raised"]
    /\ outcome' = [outcome EXCEPT ![r] = MethodOutcome(method[r], out)]
    /\ UNCHANGED <<method, attempt, calls, sleeps, nfail>>
    /\ UNCHANGED NotRepository

\* What _execute_with_retry does with the result `out` of `await operation()`
\* on the current attempt.
Handle(r, out) ==
    IF out.kind = "value"
    THEN Finish(r, out)
    ELSE IF ~IsTransient(out.err)
    THEN Finish(r, out)
    ELSE IF IsLastAttempt(attempt[r])
    THEN Finish(r, out)
    ELSE /\ pc' = [pc EXCEPT ![r] = "sleeping"]
         /\ sleeps' = [sleeps EXCEPT ![r] = Append(@, Delay(attempt[r]))]
         /\ UNCHANGED <<method, attempt, calls, outcome, nfail>>
         /\ UNCHANGED NotRepository

\* A caller calls query operation m: the query is built, the wrapper starts
\* its loop with attempt 0 and awaits the first operation().
Call(r, m) ==
    /\ pc[r] = "idle"
    /\ pc' = [pc EXCEPT ![r] = "awaiting"]
    /\ method' = [method EXCEPT ![r] = m]
    /\ attempt' = [attempt EXCEPT ![r] = 0]
    /\ calls' = [calls EXCEPT ![r] = 1]
    /\ inflight' = [inflight EXCEPT ![r] = @ + 1]
    /\ last' = [last EXCEPT ![r] = Unanswered]
    /\ UNCHANGED <<sleeps, outcome, nfail>>
    /\ UNCHANGED NotRepository

\* client.search answers with a response; execute() shapes it.
SearchReturns(r, resp) ==
    /\ pc[r] = "awaiting"
    /\ ~MustFail(r)
    /\ Scripted(r) => resp # EmptyBody
    /\ inflight' = [inflight EXCEPT ![r] = @ - 1]
    /\ last' = [last EXCEPT ![r] = Answered(resp)]
    /\ Handle(r, ProcessResponse(method[r], resp))

\* client.search raises e.
SearchRaises(r, e) ==
    /\ pc[r] = "awaiting"
    /\ ~MustSucceed(r)
    /\ Scripted(r) => e \in TransientErrors
    /\ inflight' = [inflight EXCEPT ![r] = @ - 1]
    /\ last' = [last EXCEPT ![r] = Failed(e)]
    /\ Handle(r, ExecuteRaises(method[r], e))

\* asyncio.sleep(delay) is over: the loop goes to the next attempt and
\* awaits operation() again; once range(self.max_retries) is used up the
\* function ends and returns None.
WakeUp(r) ==
    /\ pc[r] = "sleeping"
    /\ attempt' = NextAttempt(attempt, r)
    /\ UNCHANGED NotRepository
    /\ IF attempt[r] + 1 < max_retries
       THEN /\ pc' = [pc EXCEPT ![r] = "awaiting"]
            /\ calls' = [calls EXCEPT ![r] = @ + 1]
            /\ inflight' = [inflight EXCEPT ![r] = @ + 1]
            /\ last' = [last EXCEPT ![r] = Unanswered]
            /\ UNCHANGED <<method, sleeps, outcome, nfail>>
       ELSE /\ pc' = [pc EXCEPT ![r] = "returned"]
            /\ outcome' = [outcome EXCEPT ![r] =
                              MethodOutcome(method[r], Value(NoValue))]
            /\ UNCHANGED <<method, calls, inflight, sleeps, last, nfail>>

RequestStep(r) ==
    \/ \E m \in Methods : Call(r, m)
    \/ \E resp \in Responses : SearchReturns(r, resp)
    \/ \E e \in Errors : SearchRaises(r, e)
    \/ WakeUp(r)

(***************************************************************************)
(* Gauges                                                                  *)
(***************************************************************************)
Calls == 1..NumCalls
Users == 1..NumUsers

Gauges == {"ActiveChatUsersGauge", "MediumChatUsersGauge",
           "ThreadUsersGauge", "DescopeUsersGauge"}
SearchGauges == Gauges \ {"DescopeUsersGauge"}

\* The service answers; the call raises; the body lacks the aggregation
\* (or the user list); the HTTP status is not 200.
Modes == {"ok", "raises", "no_aggregation", "http_error"}

\* Optional[datetime]: None, or a date in whole seconds since the epoch,
\* naive (without tzinfo) or aware.
NoDate == [given |-> FALSE, d |-> 0, aware |-> FALSE]
Date(d) == [given |-> TRUE, d |-> d, aware |-> FALSE]
AwareDate(d) == [given |-> TRUE, d |-> d, aware |-> TRUE]
StartDates == {NoDate} \cup {Date(d) : d \in 1..MaxDate}
EndDates == {NoDate} \cup {Date(d + 1) : d \in 1..MaxDate}

\* int(date.timestamp() * 1000)
ToMillis(d) == d * 1000

\* A naive datetime: its seconds and the milliseconds within the second.
Instant(date) == <<date.d, 0>>

\* datetime.fromtimestamp(createdTime / 1000), a naive datetime
FromMillis(ms) == <<ms \div 1000, ms % 1000>>

\* a <= b of two naive datetimes
NotAfter(a, b) == a[1] < b[1] \/ (a[1] = b[1] /\ a[2] <= b[2])

\* A selector that left out the count 21.
ActiveScriptOffByOne(count) == count > 21

\* "script": "params.count >= 21"
ActiveScript(count) == count >= 21

\* "script": "params.count >= 5 && params.count <= 20"
MediumScript(count) == count >= 5 /\ count <= 20

NoScript(count) == TRUE

\* Clauses of query.bool.must.
TermClause(names) == [kind |-> "term", names |-> names, gte |-> 0, lt |-> 0]
RangeClause(gte, lt) == [kind |-> "range", names |-> {}, gte |-> gte, lt |-> lt]

MessageEvents == {"handleMessageInThread_start"}
ThreadEvents == {"createThread_start", "create_thread", "createThread"}

NoQuery == [agg |-> "none", must |-> <<>>]

\* A range appended as soon as start_date is given.
DateRangeIfStart(start, end) ==
    IF start.given
    THEN <<RangeClause(ToMillis(start.d), ToMillis(end.d))>>
    ELSE <<>>

\* `if start_date and end_date:` append the range clause
DateRange(start, end) ==
    IF start.given /\ end.given
    THEN <<RangeClause(ToMillis(start.d), ToMillis(end.d))>>
    ELSE <<>>

\* The range clauses that calls of gauge g have put in their queries so far.
RangesOf(g) ==
    LET F[i \in 0..NumCalls] ==
          IF i = 0 THEN <<>>
          ELSE F[i - 1] \o
               (IF ggauge[i] = g
                THEN SelectSeq(gquery[i].must, LAMBDA cl : cl.kind = "range")
                ELSE <<>>)
    IN  F[NumCalls]

\* The query as it would be were it kept on the gauge and appended to by
\* every call.
BuildQueryOnInstance(g, start, end) ==
    [agg  |-> IF g = "ThreadUsersGauge" THEN "unique_users"
              ELSE "users_by_messages",
     must |-> <<TermClause(IF g = "ThreadUsersGauge" THEN ThreadEvents
                           ELSE MessageEvents)>>
              \o RangesOf(g) \o DateRange(start, end)]

\* query = {...}, built anew by every call of a search gauge, and the
\* date range appended to its must list.
BuildQuery(g, start, end) ==
    [agg  |-> IF g = "ThreadUsersGauge" THEN "unique_users"
              ELSE "users_by_messages",
     must |-> <<TermClause(IF g = "ThreadUsersGauge" THEN ThreadEvents
                           ELSE MessageEvents)>>
              \o DateRange(start, end)]

\* The bucket_selector script in the query of gauge g.
Script(g, count) ==
    CASE g = "ActiveChatUsersGauge" -> ActiveScript(count)
      [] g = "MediumChatUsersGauge" -> MediumScript(count)
      [] OTHER -> NoScript(count)

\* The search service (an external collaborator, by its query contract):
\* the documents of user u that satisfy every clause of must.
Matching(q, u) ==
    LET ok(cl) == IF cl.kind = "range"
                  THEN cl.gte <= index[u].ts /\ index[u].ts < cl.lt
                  ELSE TRUE
        all == \A i \in 1..Len(q.must) : ok(q.must[i])
    IN  IF ~all THEN 0
        ELSE IF q.agg = "unique_users" THEN index[u].threads
        ELSE index[u].msgs

NoResponse == [aggregations |-> FALSE, buckets |-> {}, value |-> 0]

\* terms aggregation by user with the bucket selector of g, or the
\* cardinality of users.
Search(g, q) ==
    IF svcMode = "no_aggregation" THEN NoResponse
    ELSE LET hit == {u \in Users : Matching(q, u) > 0}
             kept == {u \in hit : Script(g, Matching(q, u))}
         IN  [aggregations |-> TRUE, buckets |-> kept,
              value |-> Cardinality(hit)]

\* GaugeResult(value, label, description).to_dict()
GaugeResult(value, label, description) ==
    [value |-> value, label |-> label, description |-> description]

Label(g) ==
    CASE g = "ActiveChatUsersGauge" -> "Active Chat Users"
      [] g = "MediumChatUsersGauge" -> "Medium Chat Users"
      [] OTHER -> "Thread Users"

Description(g) ==
    CASE g = "ActiveChatUsersGauge" ->
           <<"Users who have started 21+ message threads">>
      [] g = "MediumChatUsersGauge" ->
           <<"Users who have started 5-20 message threads">>
      [] OTHER -> <<"Users who have created at least one thread">>

\* An except clause that named the transport errors only.
CatchesTransportOnly(e) == e \in TransientErrors

\* except Exception as e: every failure inside the try block is caught.
Catches(e) == TRUE

\* The except branch of a gauge: the zero-value result.
OnError(g, e) ==
    IF ~Catches(e) THEN Raise(e)
    ELSE IF g = "DescopeUsersGauge"
    THEN Value([total_users |-> 0, new_signups |-> 0])
    ELSE Value(GaugeResult(0, Label(g), <<"Error", e>>))

\* The part of a search gauge after `await self.client.search(...)`.
ShapeSearch(g, resp) ==
    IF g = "ThreadUsersGauge"
    THEN IF resp.aggregations
         THEN Value(GaugeResult(resp.value, Label(g), Description(g)))
         ELSE OnError(g, "KeyError")
    ELSE Value(GaugeResult(Cardinality(resp.buckets), Label(g),
                           Description(g)))

\* `start_date <= created_at <= end_date` raises TypeError when it gets
\* to compare an aware date with the naive created_at: at once for an
\* aware start_date, after start_date <= created_at for an aware end_date.
ComparisonRaises(start, created_at, end) ==
    \/ start.aware
    \/ NotAfter(Instant(start), created_at) /\ end.aware

\* The part of DescopeUsersGauge after the POST: the users of the body
\* (none when it has no "users" key), and those created within
\* [start_date, end_date]; a user without createdTime has createdTime 0.
ShapeDescope(start, end) ==
    IF svcMode = "http_error"
    THEN Value([total_users |-> 0, new_signups |-> 0])
    ELSE LET users == IF svcMode = "no_aggregation" THEN {}
                      ELSE DOMAIN directory
             created_at(u) == FromMillis(directory[u])
             new == IF start.given /\ end.given
                    THEN {u \in users :
                            /\ NotAfter(Instant(start), created_at(u))
                            /\ NotAfter(created_at(u), Instant(end))}
                    ELSE {}
         IN  IF /\ start.given /\ end.given
                /\ \E u \in users : ComparisonRaises(start, created_at(u), end)
             THEN OnError("DescopeUsersGauge", "TypeError")
             ELSE Value([total_users |-> Cardinality(users),
                         new_signups |-> Cardinality(new)])

\* The client raises when the call fails and on a status that is not 2xx.
ClientError ==
    IF svcMode = "raises" THEN "ConnectionError" ELSE "TransportError"

\* The user list of the identity provider: per user its createdTime.
SampleDirectory == [u \in Users |-> ToMillis(u)]

\* createdTime values: missing (0), and around the dates of the model.
CreatedTimes ==
    {0} \cup {ToMillis(t) + f : t \in 1..(MaxDate + 1), f \in {0, 500}}

Directories == UNION {[1..n -> CreatedTimes] : n \in 0..NumUsers}

InitGaugesWith(indexes, modes, directories) ==
    /\ svcMode \in modes
    /\ index \in indexes
    /\ directory \in directories
    /\ gpc = [c \in Calls |-> "idle"]
    /\ ggauge = [c \in Calls |-> None]
    /\ gargs = [c \in Calls |-> [start |-> NoDate, end |-> NoDate]]
    /\ gquery = [c \in Calls |-> NoQuery]
    /\ gresponse = [c \in Calls |-> NoResponse]
    /\ gresult = [c \in Calls |-> Pending]

InitGauges(indexes, modes) ==
    InitGaugesWith(indexes, modes, {SampleDirectory})

\* get_gauge_data(start_date, end_date) of gauge g is called: it builds its
\* query and awaits the search (the POST, for the identity provider).
GetGaugeData(c, g, start, end) ==
    /\ gpc[c] = "idle"
    /\ gpc' = [gpc EXCEPT ![c] = "searching"]
    /\ ggauge' = [ggauge EXCEPT ![c] = g]
    /\ gargs' = [gargs EXCEPT ![c] = [start |-> start, end |-> end]]
    /\ gquery' = [gquery EXCEPT ![c] =
                    IF g \in SearchGauges THEN BuildQuery(g, start, end)
                    ELSE NoQuery]
    /\ UNCHANGED <<svcMode, index, directory, gresponse, gresult>>
    /\ UNCHANGED NotGauges

GaugeEnds(c, out) ==
    /\ gpc' = [gpc EXCEPT ![c] = IF out.kind = "value" THEN "done"
                                 ELSE "raised"]
    /\ gresult' = [gresult EXCEPT ![c] = out]
    /\ UNCHANGED <<svcMode, index, directory, ggauge, gargs, gquery>>
    /\ UNCHANGED NotGauges

\* The awaited call is over: the gauge shapes its result, or its except
\* branch does.
SearchEnds(c) ==
    /\ gpc[c] = "searching"
    /\ ggauge[c] \in SearchGauges
    /\ IF svcMode \in {"raises", "http_error"}
       THEN /\ GaugeEnds(c, OnError(ggauge[c], ClientError))
            /\ UNCHANGED gresponse
       ELSE /\ gresponse' = [gresponse EXCEPT ![c] =
                               Search(ggauge[c], gquery[c])]
            /\ GaugeEnds(c, ShapeSearch(ggauge[c],
                                        Search(ggauge[c], gquery[c])))

PostEnds(c) ==
    /\ gpc[c] = "searching"
    /\ ggauge[c] = "DescopeUsersGauge"
    /\ UNCHANGED gresponse
    /\ IF svcMode = "raises"
       THEN GaugeEnds(c, OnError(ggauge[c], "ClientConnectorError"))
       ELSE GaugeEnds(c, ShapeDescope(gargs[c].start, gargs[c].end))

GaugeStep(c) ==
    \/ \E g \in Gauges, start \in StartDates, end \in EndDates :
         GetGaugeData(c, g, start, end)
    \/ SearchEnds(c)
    \/ PostEnds(c)

\* A sample index: users at successive dates, the counts around the
\* thresholds of the gauges.
SampleIndex ==
    [u \in Users |->
        [ts |-> ToMillis(u),
         msgs |-> CASE u = 1 -> 21 [] u = 2 -> 5 [] OTHER -> 20,
         threads |-> u % 2]]

\* Every index whose users have between 0 and MaxCount message events.
CountIndexes ==
    {[u \in Users |-> [ts |-> ToMillis(1), msgs |-> f[u], threads |-> 0]] :
        f \in [Users -> 0..MaxCount]}

(***************************************************************************)
(* Pagination of get_user_events                                           *)
(***************************************************************************)
\* Text is a sequence of characters. Documents ids are texts over IdChars.
Comma == ","
IdChars == {"a", Comma}
DigitChars == <<"0", "1", "2", "3", "4", "5", "6", "7", "8", "9">>

CharCode(ch) ==
    CASE ch = Comma -> 44
      [] ch = "a" -> 97
      [] OTHER -> 47 + (CHOOSE i \in 1..10 : DigitChars[i] = ch)

Ids == UNION {[1..k -> IdChars] : k \in 1..MaxIdLen}

\* A document of the user: its timestamp (epoch milliseconds) and its _id.
Docs == {[ts |-> ToMillis(t), id |-> i] : t \in 1..MaxTs, i \in Ids}
Stores == {S \in SUBSET Docs : Cardinality(S) <= MaxDocs}

\* Sort values as the service returns them: a long for the timestamp, a
\* text for the _id.
SortInt(k) == [type |-> "int", n |-> k, s |-> <<>>]
SortStr(t) == [type |-> "str", n |-> 0, s |-> t]

\* Optional[str]
NoToken == [given |-> FALSE, s |-> <<>>]
Token(t) == [given |-> TRUE, s |-> t]

\* str(n) of a non-negative int
RECURSIVE IntToStr(_)
IntToStr(n) ==
    IF n < 10 THEN <<DigitChars[n + 1]>>
    ELSE IntToStr(n \div 10) \o <<DigitChars[(n % 10) + 1]>>

IsDigits(t) ==
    /\ Len(t) > 0
    /\ \A i \in 1..Len(t) : \E d \in 1..10 : DigitChars[d] = t[i]

\* The service reading a text as a long.
RECURSIVE StrToInt(_)
StrToInt(t) ==
    IF Len(t) = 0 THEN 0
    ELSE 10 * StrToInt(SubSeq(t, 1, Len(t) - 1)) + CharCode(t[Len(t)]) - 48

\* f"{value}"
Format(v) == IF v.type = "int" THEN IntToStr(v.n) ELSE v.s

\* text.split(sep)
RECURSIVE Split(_, _)
Split(t, sep) ==
    IF \A i \in 1..Len(t) : t[i] # sep THEN <<t>>
    ELSE LET i == CHOOSE k \in 1..Len(t) :
                    t[k] = sep /\ \A j \in 1..(k - 1) : t[j] # sep
         IN  <<SubSeq(t, 1, i - 1)>> \o Split(SubSeq(t, i + 1, Len(t)), sep)

\* result["next_page_token"] = f"{last_hit['sort'][0]},{last_hit['sort'][1]}"
EncodeToken(sort) == Format(sort[1]) \o <<Comma>> \o Format(sort[2])

\* query["search_after"] = search_after.split(",")
DecodeToken(t) == Split(t, Comma)

\* A size passed on as asked for.
UncappedSize(size) == size

\* "size": min(size, 1000)
CappedSize(size) == IF size < 1000 THEN size ELSE 1000

SortOrder == <<[field |-> "timestamp", order |-> "desc"],
               [field |-> "_id", order |-> "desc"]>>

NoPagination == [sort |-> <<>>, size |-> 0, has_after |-> FALSE,
                 search_after |-> <<>>]

\* build_paginated_query(search_after, size); build_composite_query then
\* copies its keys into the query, the dict being non-empty.
build_paginated_query(search_after, size) ==
    [sort |-> SortOrder,
     size |-> CappedSize(size),
     has_after |-> search_after.given /\ search_after.s # <<>>,
     search_after |-> IF search_after.given /\ search_after.s # <<>>
                      THEN DecodeToken(search_after.s) ELSE <<>>]

\* The search service, by its contract. Texts compare by character code.
RECURSIVE TextLess(_, _)
TextLess(a, b) ==
    IF Len(b) = 0 THEN FALSE
    ELSE IF Len(a) = 0 THEN TRUE
    ELSE IF a[1] # b[1] THEN CharCode(a[1]) < CharCode(b[1])
    ELSE TextLess(Tail(a), Tail(b))

\* d comes after e in the order (timestamp desc, _id desc).
After(d, e) == d.ts < e.ts \/ (d.ts = e.ts /\ TextLess(d.id, e.id))

\* search_after must give one value per sort key, the first a long.
BadCursor(q) ==
    q.has_after /\ (Len(q.search_after) # 2 \/ ~IsDigits(q.search_after[1]))

\* The hits of a page, in order: the documents after the cursor, the first
\* `size` of them.
Hits(q) ==
    LET cur == [ts |-> StrToInt(q.search_after[1]), id |-> q.search_after[2]]
        left == IF q.has_after THEN {d \in store : After(d, cur)} ELSE store
        rank(d) == 1 + Cardinality({e \in left : After(d, e)})
        n == IF q.size < Cardinality(left) THEN q.size ELSE Cardinality(left)
    IN  [k \in 1..n |-> CHOOSE d \in left : rank(d) = k]

SortValues(d) == <<SortInt(d.ts), SortStr(d.id)>>

NoSort == <<>>

\* _process_user_events_response
process_user_events_response(hits) ==
    [events |-> hits,
     token |-> IF Len(hits) > 0
               THEN Token(EncodeToken(SortValues(hits[Len(hits)])))
               ELSE NoToken]

NoResult == [events |-> <<>>, token |-> NoToken]

InitPaging(stores, sizes) ==
    /\ store \in stores
    /\ page_size \in sizes
    /\ ppc = "idle"
    /\ ptoken = NoToken
    /\ pquery = NoPagination
    /\ plast = NoSort
    /\ presult = NoResult
    /\ pseen = <<>>

\* get_user_events(user_id, page_token, page_size): the query is built and
\* the search awaited.
GetUserEvents(token) ==
    /\ ptoken' = token
    /\ pquery' = build_paginated_query(token, page_size)
    /\ ppc' = "searching"
    /\ UNCHANGED <<store, page_size, plast, presult, pseen>>
    /\ UNCHANGED NotPaging

\* The client asks for the first page.
FirstPage ==
    /\ ppc = "idle"
    /\ GetUserEvents(NoToken)

\* The client asks for the next page with the token of the latest result.
NextPage ==
    /\ ppc = "done"
    /\ presult.token.given
    /\ GetUserEvents(presult.token)

\* The service answers with a page of hits, which the client keeps.
PageReturns ==
    /\ ppc = "searching"
    /\ ~BadCursor(pquery)
    /\ presult' = process_user_events_response(Hits(pquery))
    /\ plast' = IF Len(Hits(pquery)) > 0
                THEN SortValues(Hits(pquery)[Len(Hits(pquery))])
                ELSE NoSort
    /\ pseen' = pseen \o Hits(pquery)
    /\ ppc' = "done"
    /\ UNCHANGED <<store, page_size, ptoken, pquery>>
    /\ UNCHANGED NotPaging

\* The service rejects the cursor (a 400, raised by the client).
PageRejected ==
    /\ ppc = "searching"
    /\ BadCursor(pquery)
    /\ ppc' = "failed"
    /\ UNCHANGED <<store, page_size, ptoken, pquery, plast, presult, pseen>>
    /\ UNCHANGED NotPaging

(***************************************************************************)
(* get_event_counts: the aggregation query and the time series             *)
(***************************************************************************)
\* Optional[str]: None, or a text (which may be empty)
NoText == [given |-> FALSE, s |-> ""]
Text(t) == [given |-> TRUE, s |-> t]

\* `if x:` of an Optional[str]
Truthy(x) == x.given /\ x.s # ""

Intervals ==
    {NoText} \cup {Text(t) : t \in {"", "hour", "day", "week", "month",
                                    "year", "1h"}}
EventNames == {NoText, Text("createThread")}
EventTypes == {NoText, Text("track")}
StartTimes == {"2024-01-01T00:00:00Z"}
EndTimes == {"2024-02-01T00:00:00Z"}

\* build_date_range_query
build_date_range_query(start_time, end_time) ==
    [range |-> [timestamp |-> [gte |-> start_time, lte |-> end_time]]]

fixed_intervals == [hour |-> "1h", day |-> "1d"]
calendar_intervals == [week |-> "week", month |-> "month"]

\* A histogram with a fixed interval whatever the interval asked for.
AlwaysFixedInterval(interval) ==
    "fixed_interval" :> (IF interval \in DOMAIN fixed_intervals
                         THEN fixed_intervals[interval] ELSE "1d")

\* The key build_aggregation_query adds to date_histogram for a non-empty
\* interval.
IntervalKey(interval) ==
    IF interval \in DOMAIN fixed_intervals
    THEN "fixed_interval" :> fixed_intervals[interval]
    ELSE IF interval \in DOMAIN calendar_intervals
    THEN "calendar_interval" :> calendar_intervals[interval]
    ELSE "fixed_interval" :> "1d"

\* A dict without keys.
EmptyDict == [k \in {} |-> 0]

\* build_aggregation_query(agg_field, interval); the key of the terms
\* aggregation is f"{agg_field}_buckets", agg_field being "timestamp" in
\* the one call there is.
build_aggregation_query(agg_field, interval) ==
    LET date_histogram ==
            [field |-> "timestamp", min_doc_count |-> 0,
             format |-> "yyyy-MM-dd'T'HH:mm:ssZ"] @@ IntervalKey(interval.s)
        time_buckets ==
            IF Truthy(interval)
            THEN "time_buckets" :> [date_histogram |-> date_histogram]
            ELSE EmptyDict
    IN  [aggs |-> time_buckets @@
                  ("timestamp_buckets" :>
                      [terms |-> [field |-> agg_field, size |-> 10000]])]

\* build_composite_query(must_conditions, aggregations=aggs): the dict of
\* aggregations is non-empty, its key "aggs" is copied into the query.
build_composite_query(must_conditions, aggregations) ==
    [query |-> [bool |-> [must |-> must_conditions]]] @@ aggregations

\* The query of get_event_counts.
EventCountsQuery(args) ==
    LET range == <<build_date_range_query(args.start_time, args.end_time)>>
        name == IF Truthy(args.event_name)
                THEN <<[term |-> [event_name |-> args.event_name.s]]>>
                ELSE <<>>
        type == IF Truthy(args.event_type)
                THEN <<[term |-> [type |-> args.event_type.s]]>>
                ELSE <<>>
    IN  build_composite_query(range \o name \o type,
                              build_aggregation_query("timestamp",
                                                      args.interval))

\* The matching events by time slot: a count per slot.
SlotCounts == UNION {[1..n -> 0..MaxValue] : n \in 0..MaxSlots}

\* The search service, by its contract: one aggregation in the response
\* per aggregation of the query; a date histogram with min_doc_count 0
\* has a bucket per slot, a terms aggregation a bucket per slot that has
\* events.
RECURSIVE TermsBuckets(_)
TermsBuckets(counts) ==
    IF Len(counts) = 0 THEN <<>>
    ELSE TermsBuckets(SubSeq(counts, 1, Len(counts) - 1)) \o
         (IF counts[Len(counts)] > 0
          THEN <<[key |-> Len(counts), doc_count |-> counts[Len(counts)]]>>
          ELSE <<>>)

HistogramBuckets(counts) ==
    [k \in 1..Len(counts) |->
       [key |-> k, key_as_string |-> IntToStr(k), doc_count |-> counts[k]]]

Aggregate(q, counts) ==
    [aggregations |->
       [name \in DOMAIN q.aggs |->
          [buckets |-> IF "date_histogram" \in DOMAIN q.aggs[name]
                       THEN HistogramBuckets(counts)
                       ELSE TermsBuckets(counts)]]]

\* _process_time_series_response
process_time_series_response(response) ==
    IF "time_buckets" \notin DOMAIN response.aggregations
    THEN <<>>
    ELSE LET buckets == response.aggregations["time_buckets"].buckets
         IN  [k \in 1..Len(buckets) |->
                [timestamp |-> buckets[k].key_as_string,
                 count |-> buckets[k].doc_count]]

NoArgs == [start_time |-> "", end_time |-> "", event_name |-> NoText,
           event_type |-> NoText, interval |-> NoText]

InitCounts ==
    /\ apc = "idle"
    /\ aargs = NoArgs
    /\ aquery = EmptyDict
    /\ aresponse = EmptyDict
    /\ aresult = <<>>

\* get_event_counts(start_time, end_time, event_name, event_type,
\* interval): the query is built and the search awaited.
GetEventCounts(args) ==
    /\ apc = "idle"
    /\ aargs' = args
    /\ aquery' = EventCountsQuery(args)
    /\ apc' = "searching"
    /\ UNCHANGED <<aresponse, aresult>>
    /\ UNCHANGED NotCounts

\* The service answers; the response is made into the time series.
CountsReturn(counts) ==
    /\ apc = "searching"
    /\ aresponse' = Aggregate(aquery, counts)
    /\ aresult' = process_time_series_response(Aggregate(aquery, counts))
    /\ apc' = "done"
    /\ UNCHANGED <<aargs, aquery>>
    /\ UNCHANGED NotCounts

\* The search fails for good: _execute_with_retry raises.
CountsRaise ==
    /\ apc = "searching"
    /\ apc' = "raised"
    /\ UNCHANGED <<aargs, aquery, aresponse, aresult>>
    /\ UNCHANGED NotCounts

(***************************************************************************)
(* Specifications                                                          *)
(***************************************************************************)
PagingIdle == InitPaging({{}}, {0})

GaugesIdle == InitGauges({SampleIndex}, {"ok"})

Init == InitRepository({Free}) /\ GaugesIdle /\ PagingIdle /\ InitCounts

Next == \E r \in Requests : RequestStep(r)

Spec == Init /\ [][Next]_vars

\* One request whose operation fails on its first N invocations, N drawn
\* from 0..MaxFailures. The event loop runs a coroutine until it ends, a
\* sleep ends and the scripted operation answers: weak fairness.
InitForced ==
    InitRepository(0..MaxFailures) /\ GaugesIdle /\ PagingIdle /\ InitCounts

NextForced == RequestStep(1)

SpecForced == InitForced /\ [][NextForced]_vars /\ WF_vars(NextForced)

\* Concurrent get_gauge_data calls against services that stay as they are.
RepositoryIdle == InitRepository({Free})

InitGaugesSpec ==
    /\ RepositoryIdle /\ InitGauges({SampleIndex}, Modes) /\ PagingIdle
    /\ InitCounts

NextGauges == \E c \in Calls : GaugeStep(c)

SpecGauges == InitGaugesSpec /\ [][NextGauges]_vars

\* Two calls of the chat gauges, without dates, over every index of
\* CountIndexes.
InitClassify ==
    /\ RepositoryIdle /\ InitGauges(CountIndexes, {"ok"}) /\ PagingIdle
    /\ InitCounts

NextClassify ==
    \E c \in {1, 2} :
       \/ \E g \in {"ActiveChatUsersGauge", "MediumChatUsersGauge"} :
            GetGaugeData(c, g, NoDate, NoDate)
       \/ SearchEnds(c)

SpecClassify == InitClassify /\ [][NextClassify]_vars

\* One call of the Descope gauge, with naive and aware dates, against
\* every user list of Directories.
InitDescope ==
    /\ RepositoryIdle /\ PagingIdle /\ InitCounts
    /\ InitGaugesWith({SampleIndex}, Modes, Directories)

DescopeStartDates == StartDates \cup {AwareDate(d) : d \in 1..MaxDate}
DescopeEndDates == EndDates \cup {AwareDate(d + 1) : d \in 1..MaxDate}

NextDescope ==
    \/ \E start \in DescopeStartDates, end \in DescopeEndDates :
         GetGaugeData(1, "DescopeUsersGauge", start, end)
    \/ PostEnds(1)

SpecDescope == InitDescope /\ [][NextDescope]_vars

\* A client paging through the documents of a store, with small pages.
InitPagingSpec ==
    /\ RepositoryIdle /\ GaugesIdle /\ InitPaging(Stores, 0..MaxPage)
    /\ InitCounts

NextPaging == FirstPage \/ NextPage \/ PageReturns \/ PageRejected

SpecPaging == InitPagingSpec /\ [][NextPaging]_vars

\* The same client, which goes on while it holds a token, against a
\* service that answers every search: weak fairness.
SpecPagingFair == SpecPaging /\ WF_vars(NextPaging)

\* The same client over one store, with every page size up to MaxPageSize.
SampleStore == {d \in Docs : Len(d.id) = 1}

InitPageSize ==
    /\ RepositoryIdle /\ GaugesIdle
    /\ InitPaging({SampleStore}, 0..MaxPageSize)
    /\ InitCounts

SpecPageSize == InitPageSize /\ [][NextPaging]_vars

\* One call of get_event_counts, with every interval of Intervals, against
\* a service with some events.
InitCountsSpec == RepositoryIdle /\ GaugesIdle /\ PagingIdle /\ InitCounts

NextCounts ==
    \/ \E st \in StartTimes, en \in EndTimes, name \in EventNames,
          type \in EventTypes, interval \in Intervals :
         GetEventCounts([start_time |-> st, end_time |-> en,
                         event_name |-> name, event_type |-> type,
                         interval |-> interval])
    \/ \E counts \in SlotCounts : CountsReturn(counts)
    \/ CountsRaise

SpecCounts == InitCountsSpec /\ [][NextCounts]_vars

(***************************************************************************)
(* Claims about EventRepository                                            *)
(***************************************************************************)
Over(r) == pc[r] \in {"returned", "raised"}

\* C1: an operation that fails with a transient error on its first N
\* invocations and succeeds afterwards: for N < 3 the wrapper eventually
\* returns the value of invocation N + 1, the first successful one; for
\* N >= 3 it eventually raises the transient error of the third invocation
\* and returns no value.
C1_ForcedFailures ==
    /\ [](Over(1) =>
            IF nfail[1] < 3
            THEN /\ pc[1] = "returned"
                 /\ calls[1] = nfail[1] + 1
                 /\ last[1].kind = "response"
                 /\ outcome[1] = ProcessResponse(method[1], last[1].resp)
            ELSE /\ pc[1] = "raised"
                 /\ calls[1] = 3
                 /\ last[1].kind = "raise"
                 /\ outcome[1].kind = "raise"
                 /\ outcome[1].err = last[1].err
                 /\ outcome[1].err \in {"ConnectionError", "TransportError"}
                 /\ outcome[1].val = NoValue)
    /\ (pc[1] = "awaiting") ~> Over(1)

\* C1 witness: two forced failures, two sleeps, then the third invocation
\* succeeded and its value was returned.
C1_Witness ==
    /\ nfail[1] = 2
    /\ pc[1] = "returned"
    /\ calls[1] = 3
    /\ sleeps[1] = <<1, 2>>
    /\ outcome[1].kind = "value"

\* C2: a failure that is not a ConnectionError or TransportError leaves
\* the wrapper at once, on whichever attempt it occurs: the caller has the
\* exception, no sleep follows it and the operation is not invoked again.
C2_NonTransientPropagates ==
    /\ [](\A r \in Requests :
            (last[r].kind = "raise"
               /\ last[r].err \notin {"ConnectionError", "TransportError"})
            => /\ pc[r] = "raised"
               /\ outcome[r] = Raise(last[r].err)
               /\ inflight[r] = 0
               /\ calls[r] = attempt[r] + 1
               /\ Len(sleeps[r]) = attempt[r])
    /\ [][\A r \in Requests :
            pc[r] = "raised"
            => /\ pc'[r] = "raised"
               /\ calls'[r] = calls[r]
               /\ sleeps'[r] = sleeps[r]
               /\ inflight'[r] = 0]_vars

\* C2 witness: a non-transient failure on the second attempt, after one
\* retry.
C2_Witness ==
    \E r \in Requests :
        /\ pc[r] = "raised"
        /\ outcome[r].err = "ValueError"
        /\ attempt[r] = 1

\* C3: the operation is invoked at most 3 times; the sleep after the k-th
\* transient failure (k from 0) is 1 * 2^k seconds, so the sleeps are 1 then
\* 2; there is no sleep after the final failed attempt or after a success.
C3_BoundedBackoff ==
    \A r \in Requests :
        /\ calls[r] <= 3
        /\ sleeps[r] \in {<<>>, <<1>>, <<1, 2>>}
        /\ \A k \in 1..Len(sleeps[r]) : sleeps[r][k] = 1 * 2 ^ (k - 1)
        /\ Len(sleeps[r]) = IF pc[r] = "sleeping" THEN calls[r]
                            ELSE IF pc[r] = "idle" THEN 0 ELSE calls[r] - 1
        /\ pc[r] = "sleeping" => last[r].kind = "raise"

\* C3 witness: three attempts, the last one failed, two sleeps in all.
C3_Witness ==
    \E r \in Requests :
        /\ pc[r] = "raised"
        /\ calls[r] = 3
        /\ last[r].err \in TransientErrors
        /\ sleeps[r] = <<1, 2>>

\* C5 as stated: no failure of the search call reaches the caller of a
\* query operation; each is turned into a defaulted result.
C5_NoErrorPropagates ==
    \A r \in Requests :
        (Over(r) /\ last[r].kind = "raise")
        => /\ pc[r] = "returned"
           /\ outcome[r].kind = "value"

\* C5 amended: a failure of the search call that the wrapper does not
\* retry (a transient one on the third attempt, any other on any attempt)
\* is raised in the caller of the query operation, unchanged, and the
\* caller gets no result.
C5_FailurePropagates ==
    \A r \in Requests :
        (Over(r) /\ last[r].kind = "raise")
        => /\ pc[r] = "raised"
           /\ outcome[r] = Raise(last[r].err)
           /\ outcome[r].val = NoValue
           /\ last[r].err \in TransientErrors => calls[r] = 3

\* C5 witness: both kinds of failure have reached callers.
C5_Witness ==
    \E r, q \in Requests :
        /\ pc[r] = "raised" /\ outcome[r].err = "ConnectionError"
        /\ calls[r] = 3
        /\ pc[q] = "raised" /\ outcome[q].err = "ValueError"
        /\ method[r] = "get_event_counts"

\* C9: a request has at most one search call in flight; attempt k + 1
\* starts only after attempt k ended in a transient failure and the sleep
\* after it is over; a step of one request changes no other request's
\* attempt count, invocation count or result.
C9_SingleInFlight ==
    /\ [](\A r \in Requests : inflight[r] \in {0, 1})
    /\ [][\A r \in Requests :
            /\ (calls'[r] # calls[r] /\ calls[r] > 0)
               => /\ pc[r] = "sleeping"
                  /\ inflight[r] = 0
                  /\ last[r].kind = "raise"
                  /\ last[r].err \in TransientErrors
                  /\ calls'[r] = calls[r] + 1
                  /\ attempt'[r] = attempt[r] + 1
            /\ (pc'[r] # pc[r])
               => \A q \in Requests \ {r} :
                    /\ attempt'[q] = attempt[q]
                    /\ calls'[q] = calls[q]
                    /\ outcome'[q] = outcome[q]
                    /\ pc'[q] = pc[q]]_vars

\* C9 witness: two requests each with a search call in flight, one of them
\* on its second attempt.
C9_Witness ==
    \E r, q \in Requests :
        /\ r # q
        /\ inflight[r] = 1 /\ inflight[q] = 1
        /\ attempt[r] = 1 /\ attempt[q] = 0

(***************************************************************************)
(* Claims about the gauges                                                 *)
(***************************************************************************)
\* C4: when the computation inside get_gauge_data fails (the search or the
\* POST raises, the status is not 2xx, the response lacks the aggregation),
\* the call does not raise and gives the zero-value result: value 0 with
\* the gauge's label, total_users 0 and new_signups 0 for the identity
\* provider.
C4_FailureGivesZero ==
    \A c \in Calls :
        /\ gpc[c] # "raised"
        /\ (gpc[c] = "done" /\ svcMode # "ok")
           => /\ gresult[c].kind = "value"
              /\ IF ggauge[c] = "DescopeUsersGauge"
                 THEN gresult[c].val = [total_users |-> 0, new_signups |-> 0]
                 ELSE /\ gresult[c].val.value = 0
                      /\ gresult[c].val.label =
                           CASE ggauge[c] = "ActiveChatUsersGauge" ->
                                  "Active Chat Users"
                             [] ggauge[c] = "MediumChatUsersGauge" ->
                                  "Medium Chat Users"
                             [] OTHER -> "Thread Users"

\* C4 witness: the thread gauge got a response without its aggregation
\* and gave the zero-value result of its except branch.
C4_Witness ==
    \E c \in Calls :
        /\ gpc[c] = "done"
        /\ ggauge[c] = "ThreadUsersGauge"
        /\ svcMode = "no_aggregation"
        /\ gresult[c].val = GaugeResult(0, "Thread Users", <<"Error", "KeyError">>)

\* C6: a user with n qualifying events is counted by the active gauge iff
\* n >= 21 and by the medium gauge iff 5 <= n <= 20: 21 is active, 20 and 5
\* are medium, 4 is neither, and no user is counted by both.
C6_Classification ==
    \A c \in Calls :
        gpc[c] = "done" =>
            /\ \A u \in Users :
                 LET n == index[u].msgs
                     counted == u \in gresponse[c].buckets
                 IN  /\ ggauge[c] = "ActiveChatUsersGauge"
                          => /\ counted <=> n >= 21
                             /\ n = 21 => counted
                             /\ n \in {4, 5, 20} => ~counted
                     /\ ggauge[c] = "MediumChatUsersGauge"
                          => /\ counted <=> (5 <= n /\ n <= 20)
                             /\ n \in {5, 20} => counted
                             /\ n \in {4, 21} => ~counted
            /\ gresult[c].val.value = Cardinality(gresponse[c].buckets)
            /\ \A d \in Calls :
                 (gpc[d] = "done" /\ ggauge[d] # ggauge[c])
                 => gresponse[c].buckets \cap gresponse[d].buckets = {}

\* C6 witness: a user with 21 events and one with 20, the first counted by
\* the active gauge alone, the second by the medium gauge alone.
C6_Witness ==
    \E c, d \in Calls :
        /\ index[1].msgs = 21 /\ index[2].msgs = 20
        /\ gpc[c] = "done" /\ ggauge[c] = "ActiveChatUsersGauge"
        /\ gpc[d] = "done" /\ ggauge[d] = "MediumChatUsersGauge"
        /\ gresponse[c].buckets = {1}
        /\ gresponse[d].buckets = {2}

\* The query a search gauge sends when it runs alone.
C10_QueryAlone(g, start, end) ==
    [agg  |-> IF g = "ThreadUsersGauge" THEN "unique_users"
              ELSE "users_by_messages",
     must |-> <<TermClause(IF g = "ThreadUsersGauge" THEN ThreadEvents
                           ELSE MessageEvents)>>
              \o (IF start.given /\ end.given
                  THEN <<RangeClause(start.d * 1000, end.d * 1000)>>
                  ELSE <<>>)]

\* What get_gauge_data of g gives when it runs alone against the services
\* as they are.
C10_Alone(g, start, end) ==
    IF g = "DescopeUsersGauge"
    THEN IF svcMode = "raises" THEN OnError(g, "ClientConnectorError")
         ELSE ShapeDescope(start, end)
    ELSE IF svcMode \in {"raises", "http_error"} THEN OnError(g, ClientError)
    ELSE ShapeSearch(g, Search(g, C10_QueryAlone(g, start, end)))

\* C10: against unchanged services, two calls of a gauge with the same
\* arguments give equal results, and a call that ran interleaved with
\* others gives what the gauge gives alone.
C10_IndependentIdempotent ==
    \A c \in Calls :
        gpc[c] \in {"done", "raised"} =>
            /\ gresult[c] = C10_Alone(ggauge[c], gargs[c].start, gargs[c].end)
            /\ \A d \in Calls :
                 (/\ gpc[d] \in {"done", "raised"}
                  /\ ggauge[d] = ggauge[c]
                  /\ gargs[d] = gargs[c])
                 => gresult[d] = gresult[c]

\* C10 witness: two calls of the medium gauge with the same dates are
\* over, both with the count of the dated query.
C10_Witness ==
    \E c, d \in Calls :
        /\ c # d
        /\ gpc[c] = "done" /\ gpc[d] = "done"
        /\ ggauge[c] = "MediumChatUsersGauge" /\ ggauge[d] = ggauge[c]
        /\ gargs[c] = gargs[d]
        /\ gargs[c].start.given /\ gargs[c].end.given
        /\ gresult[c].val.value = 0
        /\ svcMode = "ok"

(***************************************************************************)
(* Claims about pagination                                                 *)
(***************************************************************************)
\* C7: the token made of the last hit's sort values [s0, s1], decoded on
\* the next call, gives a search_after of the same two values (each
\* compared as the text it is sent as).
C7_CursorRoundTrips ==
    (ppc = "searching" /\ ptoken.given)
    => /\ pquery.has_after
       /\ Len(pquery.search_after) = Len(plast)
       /\ \A i \in 1..Len(plast) : pquery.search_after[i] = Format(plast[i])

\* C8: the size of the query is min(page_size, 1000): never above 1000,
\* the page_size asked for when that is at most 1000; the sort order is
\* timestamp descending, then _id descending.
C8_PageSizeCapped ==
    ppc # "idle" =>
        /\ pquery.size = IF page_size <= 1000 THEN page_size ELSE 1000
        /\ pquery.size <= 1000
        /\ page_size <= 1000 => pquery.size = page_size
        /\ pquery.sort = <<[field |-> "timestamp", order |-> "desc"],
                           [field |-> "_id", order |-> "desc"]>>

\* C8 witness: a page of 1001 was asked for and the query says 1000.
C8_Witness ==
    /\ ppc = "searching"
    /\ page_size = 1001
    /\ pquery.size = 1000

\* The matching events that come after the last event of the page.
C11_Remaining ==
    IF Len(presult.events) = 0 THEN {}
    ELSE {d \in store : After(d, presult.events[Len(presult.events)])}

\* C11: a response has a next_page_token exactly when there are more
\* results: its page is non-empty and further matching events follow it;
\* a page that exhausts the matching events, and an empty page, has none.
C11_TokenIffMoreResults ==
    ppc = "done" =>
        (presult.token.given
           <=> (Len(presult.events) > 0 /\ C11_Remaining # {}))

\* The matching events in the order (timestamp desc, _id desc).
C12_InOrder ==
    [k \in 1..Cardinality(store) |->
       CHOOSE d \in store : Cardinality({e \in store : After(d, e)}) = k - 1]

\* C12: with a page size of at least 1, following the tokens eventually
\* gives a response without token, and by then the client got every
\* matching event exactly once, in descending sort order.
C12_PagingTerminates ==
    (page_size >= 1)
    => <>(/\ ppc = "done"
          /\ ~presult.token.given
          /\ pseen = C12_InOrder)

(***************************************************************************)
(* Claims about get_event_counts                                           *)
(***************************************************************************)
\* The date_histogram of the query's time_buckets aggregation.
C13_Histogram == aquery.aggs["time_buckets"].date_histogram

C13_Has(key, value) ==
    key \in DOMAIN C13_Histogram /\ C13_Histogram[key] = value

\* C13: the interval selects the shape of the histogram: "hour" gives
\* fixed_interval "1h", "day" fixed_interval "1d", "week" and "month"
\* calendar_interval "week" and "month", any other non-empty interval
\* fixed_interval "1d"; the histogram of a non-empty interval has exactly
\* one of fixed_interval and calendar_interval; with no interval the query
\* has no time_buckets aggregation and get_event_counts returns [].
C13_IntervalShapesHistogram ==
    apc # "idle" =>
        LET interval == aargs.interval
        IN  /\ (interval.given /\ interval.s # "") =>
                 /\ "time_buckets" \in DOMAIN aquery.aggs
                 /\ Cardinality(DOMAIN C13_Histogram \cap
                                {"fixed_interval", "calendar_interval"}) = 1
                 /\ CASE interval.s = "hour" -> C13_Has("fixed_interval", "1h")
                      [] interval.s = "day" -> C13_Has("fixed_interval", "1d")
                      [] interval.s = "week" ->
                           C13_Has("calendar_interval", "week")
                      [] interval.s = "month" ->
                           C13_Has("calendar_interval", "month")
                      [] OTHER -> C13_Has("fixed_interval", "1d")
            /\ ~interval.given =>
                 /\ "time_buckets" \notin DOMAIN aquery.aggs
                 /\ apc = "done" => aresult = <<>>

\* C13 witness: a call without interval got [] although the service
\* counted events in two slots.
C13_Witness ==
    /\ apc = "done"
    /\ ~aargs.interval.given
    /\ Len(aresponse.aggregations["timestamp_buckets"].buckets) = 2
    /\ aresult = <<>>

(***************************************************************************)
(* Claims about the date range of the search gauges                        *)
(***************************************************************************)
\* The events of user u that the gauge of call c counts.
C14_Events(c, u) ==
    IF ggauge[c] = "ThreadUsersGauge" THEN index[u].threads
    ELSE index[u].msgs

\* The users call c counts: those with events (within the dates, if both
\* are given) whose number passes the selector of the gauge.
C14_Counted(c) ==
    {u \in Users :
        /\ (gargs[c].start.given /\ gargs[c].end.given) =>
              /\ gargs[c].start.d * 1000 <= index[u].ts
              /\ index[u].ts < gargs[c].end.d * 1000
        /\ C14_Events(c, u) > 0
        /\ Script(ggauge[c], C14_Events(c, u))}

\* C14: in the three search gauges the must list holds a timestamp range
\* exactly when both start_date and end_date are given; the range is
\* half-open, gte the start and lt the end, both in epoch milliseconds;
\* when a date is missing the must list holds the event-name clause alone
\* and the gauge counts over all time.
C14_DateRangeIffBoth ==
    \A c \in Calls :
        (gpc[c] # "idle" /\ ggauge[c] \in SearchGauges)
        => LET must == gquery[c].must
               both == gargs[c].start.given /\ gargs[c].end.given
               names == IF ggauge[c] = "ThreadUsersGauge"
                        THEN {"createThread_start", "create_thread",
                              "createThread"}
                        ELSE {"handleMessageInThread_start"}
           IN  /\ must[1].kind = "term" /\ must[1].names = names
               /\ (\E i \in 1..Len(must) : must[i].kind = "range") <=> both
               /\ both => /\ Len(must) = 2
                          /\ must[2].kind = "range"
                          /\ must[2].gte = gargs[c].start.d * 1000
                          /\ must[2].lt = gargs[c].end.d * 1000
               /\ ~both => Len(must) = 1
               /\ (gpc[c] = "done" /\ svcMode = "ok")
                  => gresult[c].val.value = Cardinality(C14_Counted(c))

\* C14 witness: a dated call of the active gauge counted the user whose
\* events are at the start of the range, and not beyond the end; the
\* medium gauge's user at the end of the range is outside.
C14_Witness ==
    \E c \in Calls :
        /\ gpc[c] = "done" /\ svcMode = "ok"
        /\ ggauge[c] = "ActiveChatUsersGauge"
        /\ gargs[c].start.given /\ gargs[c].end.given
        /\ Len(gquery[c].must) = 2
        /\ \E u \in Users : index[u].ts = gquery[c].must[2].gte
                            /\ u \in C14_Counted(c)
        /\ \E u \in Users : index[u].ts = gquery[c].must[2].lt
        /\ gresult[c].val.value = 1

(***************************************************************************)
(* Claims about DescopeUsersGauge                                          *)
(***************************************************************************)
\* The users of the response whose creation time is within the dates of
\* call c.
C15_New(c) ==
    {u \in DOMAIN directory :
        /\ gargs[c].start.d * 1000 <= directory[u]
        /\ directory[u] <= gargs[c].end.d * 1000}

\* C15: every result has new_signups <= total_users; a response that is
\* not 200 gives 0 and 0; a 200 response gives as total_users the number
\* of users returned and as new_signups the number of those created
\* within the closed interval [start_date, end_date], 0 when a date is
\* missing.
C15_SignupsWithinTotal ==
    \A c \in Calls :
        (gpc[c] \in {"done", "raised"} /\ ggauge[c] = "DescopeUsersGauge")
        => /\ gresult[c].kind = "value"
           /\ gresult[c].val.new_signups <= gresult[c].val.total_users
           /\ svcMode = "http_error" =>
                 gresult[c].val = [total_users |-> 0, new_signups |-> 0]
           /\ svcMode = "no_aggregation" =>
                 gresult[c].val = [total_users |-> 0, new_signups |-> 0]
           /\ svcMode = "ok" =>
                 /\ gresult[c].val.total_users = Len(directory)
                 /\ gresult[c].val.new_signups =
                       IF gargs[c].start.given /\ gargs[c].end.given
                       THEN Cardinality(C15_New(c))
                       ELSE 0

====
